---- MODULE Spec2Model ----
(***************************************************************************)
(* house-mcp-manager: adapter contract (enable / disable / toggle), the    *)
(* Claude adapter's user/project merge and its backup-then-save, the       *)
(* Cursor adapter's two-file save, detect and loadConfig of the Claude,    *)
(* Cline and Cursor adapters, the profile commands and scope resolution.   *)
(*                                                                         *)
(* A JavaScript object used as a name -> record mapping is modelled as a   *)
(* TLA+ function whose DOMAIN is the set of own keys.  Server names range  *)
(* over ordinary names (not members of Object.prototype) and every record  *)
(* is an object, so the truthiness test `map[name]` of the source is the   *)
(* membership test  name \in DOMAIN map.                                   *)
(***************************************************************************)
EXTENDS Integers, Sequences, FiniteSets, TLC

VARIABLES
    config,     \* the in-memory MCPConfig the BaseAdapter methods act on
    hist,       \* the last HistLen adapter calls: op, name, threw, before
    file,       \* content of the adapter's config file (~/.claude.json, ...)
    merged,     \* what the last getMergedConfig call returned
    backups,    \* ~/.claude-mcp-backups: backup file name -> content
    now,        \* the wall clock, in milliseconds
    call,       \* the saveConfig call in progress or last finished
    saves,      \* number of saveConfig calls started
    dfile,      \* content of ~/.cursor/mcp-disabled.json
    profiles,   \* ~/.claude-mcp-profiles: profile name -> profile file
    saved,      \* history: profile name -> live config when it was last saved
    probe,      \* the last query or command: its input and its outcome
    adapter     \* id of the adapter in use: "claude", "cline" or "cursor"

baseVars  == <<config, hist>>
mergeVars == <<file, merged>>
fsVars    == <<backups, now, call, saves>>
profVars  == <<profiles, saved>>
extVars   == <<dfile, profVars, probe, adapter>>
vars      == <<config, hist, file, merged, backups, now, call, saves,
               dfile, profiles, saved, probe, adapter>>

----------------------------------------------------------------------------
(* Bounds *)

NumNames == 2
HistLen  == 2
MaxClock == 2
MaxSaves == 2

AllNames == <<"github", "notion", "puppeteer", "context7">>
Names    == {AllNames[i] : i \in 1..NumNames}

----------------------------------------------------------------------------
(* Server records *)

RecA        == [command |-> "npx", args |-> <<"-y", "server">>, env |-> [KEY |-> "value"]]
RecB        == [command |-> "node"]
Placeholder == [command |-> ""]

Records == {RecA, RecB}

----------------------------------------------------------------------------
(* Name -> record mappings *)

EmptyMap == [k \in {} |-> RecB]

Maps(keys, recs) == UNION {[ks -> recs] : ks \in SUBSET keys}

Has(m, k) == k \in DOMAIN m

Put(m, k, v) == [x \in (DOMAIN m) \cup {k} |-> IF x = k THEN v ELSE m[x]]

Del(m, k) == [x \in (DOMAIN m) \ {k} |-> m[x]]

Disjoint(c) == (DOMAIN c.enabled) \cap (DOMAIN c.disabled) = {}

Snapshots == [enabled : Maps(Names, Records), disabled : Maps(Names, Records)]

----------------------------------------------------------------------------
(* BaseAdapter *)

getEnabledServers(c) == DOMAIN c.enabled

getDisabledServers(c) == DOMAIN c.disabled

getAllServers(c) == getEnabledServers(c) \cup getDisabledServers(c)

serverExists(c, n) == n \in getAllServers(c)

isServerEnabled(c, n) == n \in getEnabledServers(c)

Threw(c) == [threw |-> TRUE, config |-> c]

Returned(c) == [threw |-> FALSE, config |-> c]

enableServer_KeepsDisabled(c, n) ==
    IF ~Has(c.disabled, n)
    THEN Threw(c)
    ELSE Returned([c EXCEPT !.enabled = Put(c.enabled, n, c.disabled[n])])

enableServer(c, n) ==
    IF ~Has(c.disabled, n)
    THEN Threw(c)
    ELSE Returned([c EXCEPT !.enabled  = Put(c.enabled, n, c.disabled[n]),
                            !.disabled = Del(c.disabled, n)])

disableServer_CommandOnly(c, n) ==
    IF ~Has(c.enabled, n)
    THEN Threw(c)
    ELSE Returned([c EXCEPT !.disabled = Put(c.disabled, n, [command |-> c.enabled[n].command]),
                            !.enabled  = Del(c.enabled, n)])

disableServer(c, n) ==
    IF ~Has(c.enabled, n)
    THEN Threw(c)
    ELSE Returned([c EXCEPT !.disabled = Put(c.disabled, n, c.enabled[n]),
                            !.enabled  = Del(c.enabled, n)])

toggleServer_EnableOnly(c, n) ==
    IF Has(c.disabled, n)
    THEN enableServer(c, n)
    ELSE Threw(c)

toggleServer_Silent(c, n) ==
    IF isServerEnabled(c, n)
    THEN disableServer(c, n)
    ELSE IF Has(c.disabled, n)
         THEN enableServer(c, n)
         ELSE Returned(c)

toggleServer(c, n) ==
    IF isServerEnabled(c, n)
    THEN disableServer(c, n)
    ELSE IF Has(c.disabled, n)
         THEN enableServer(c, n)
         ELSE Threw(c)

----------------------------------------------------------------------------
(* Calls on the in-memory snapshot *)

Record(op, n, r) ==
    LET h == Append(hist, [op |-> op, name |-> n, threw |-> r.threw, before |-> config])
    IN  IF Len(h) > HistLen THEN Tail(h) ELSE h

EnableServer ==
    \E n \in Names :
        LET r == enableServer(config, n) IN
            /\ config' = r.config
            /\ hist' = Record("enable", n, r)
            /\ UNCHANGED <<mergeVars, fsVars, extVars>>

DisableServer ==
    \E n \in Names :
        LET r == disableServer(config, n) IN
            /\ config' = r.config
            /\ hist' = Record("disable", n, r)
            /\ UNCHANGED <<mergeVars, fsVars, extVars>>

ToggleServer ==
    \E n \in Names :
        LET r == toggleServer(config, n) IN
            /\ config' = r.config
            /\ hist' = Record("toggle", n, r)
            /\ UNCHANGED <<mergeVars, fsVars, extVars>>

NoFile == [state |-> "absent"]

NoCall == [path |-> <<>>, result |-> [threw |-> TRUE, error |-> "not called"]]

NoBackups == [t \in {} |-> NoFile]

NoSave == [status |-> "none"]

NoProfiles == [p \in {} |-> NoFile]

NoSaved == [p \in {} |-> [enabled |-> EmptyMap, disabled |-> EmptyMap]]

NoProbe == [op |-> "none"]

InitFs ==
    /\ backups = NoBackups
    /\ now = 0
    /\ call = NoSave
    /\ saves = 0

InitExt ==
    /\ dfile = NoFile
    /\ profiles = NoProfiles
    /\ saved = NoSaved
    /\ probe = NoProbe
    /\ adapter = "claude"

InitBase ==
    /\ config \in Snapshots
    /\ hist = <<>>
    /\ file = NoFile
    /\ merged = NoCall
    /\ InitFs
    /\ InitExt

NextBase == EnableServer \/ DisableServer \/ ToggleServer

SpecBase == InitBase /\ [][NextBase]_vars

----------------------------------------------------------------------------
(* ~/.claude.json                                                          *)
(* A JSON object is a function from its keys to values; an absent key is   *)
(* a name outside the DOMAIN.  disabledMcpServers, an array of names that  *)
(* the program writes from Object.keys, is a set of names.  A path is the  *)
(* sequence of its segments.                                               *)

Get(obj, key, default) == IF key \in DOMAIN obj THEN obj[key] ELSE default

Set(obj, key, v) == [x \in (DOMAIN obj) \cup {key} |-> IF x = key THEN v ELSE obj[x]]

Unset(obj, key) == [x \in (DOMAIN obj) \ {key} |-> obj[x]]

EmptyObj == [k \in {} |-> 0]

ProjectDir == <<"home", "proj">>

QueryPaths == {ProjectDir, <<"home", ".", "proj">>, <<"home", "other">>}

resolve(p) == SelectSeq(p, LAMBDA seg : seg # ".")

normalizeProjectPath(p) == resolve(p)

OtherTopLevel == [k \in {"numStartups"} |-> 7]

OtherProjectFields == [k \in {"allowedTools"} |-> <<"Bash">>]

ProjectEntries ==
    {Set(OtherProjectFields, "mcpServers", m) : m \in Maps(Names, Records)}
    \cup
    {Set(Set(OtherProjectFields, "mcpServers", m), "disabledMcpServers", d) :
        m \in Maps(Names, Records), d \in SUBSET Names}

ProjectSections ==
    {[k \in {} |-> EmptyObj]} \cup {[k \in {ProjectDir} |-> e] : e \in ProjectEntries}

UserSections ==
    {Set(OtherTopLevel, "mcpServers", e) : e \in Maps(Names, Records)}
    \cup
    {Set(Set(OtherTopLevel, "mcpServers", e), "_disabled_mcpServers", d) :
        e \in Maps(Names, Records), d \in Maps(Names, Records) \ {EmptyMap}}

ClaudeFiles ==
    {[state |-> "ok", json |-> u] : u \in UserSections}
    \cup
    {[state |-> "ok", json |-> Set(u, "projects", ps)] :
        u \in UserSections, ps \in ProjectSections}

Failed(e) == [threw |-> TRUE, error |-> e]

Ok(v) == [threw |-> FALSE, value |-> v]

loadConfig(f) ==
    IF f.state = "absent" THEN Failed("not found")
    ELSE IF f.state = "unreadable" THEN Failed("read")
    ELSE IF f.state \in {"invalid", "null"} THEN Failed("parse")
    ELSE IF f.state = "array" THEN Ok([enabled |-> EmptyMap, disabled |-> EmptyMap])
    ELSE Ok([enabled  |-> Get(f.json, "mcpServers", EmptyMap),
             disabled |-> Get(f.json, "_disabled_mcpServers", EmptyMap)])

Null == [null |-> TRUE]

loadProjectConfig(f, projectPath) ==
    IF f.state = "absent" THEN Ok(Null)
    ELSE IF f.state = "invalid" THEN Failed("load project")
    ELSE
        LET normalizedPath == normalizeProjectPath(projectPath)
            projects       == Get(f.json, "projects", [k \in {} |-> EmptyObj])
        IN  IF normalizedPath \notin DOMAIN projects THEN Ok(Null)
            ELSE
                LET projectConfig == projects[normalizedPath]
                    disabledNames == Get(projectConfig, "disabledMcpServers", {})
                    mcpServers    == Get(projectConfig, "mcpServers", EmptyMap)
                IN  Ok([enabled  |-> [n \in (DOMAIN mcpServers) \ disabledNames |-> mcpServers[n]],
                        disabled |-> [n \in disabledNames |->
                                        IF Has(mcpServers, n) THEN mcpServers[n]
                                                              ELSE Placeholder]])

mergedDisabledRecord(userConfig, projectConfig, n) ==
    IF Has(projectConfig.enabled, n) THEN projectConfig.enabled[n]
    ELSE IF Has(userConfig.enabled, n) THEN userConfig.enabled[n]
    ELSE Placeholder

mergeConfigs_AdditionsAll(userConfig, projectConfig, normalizedPath) ==
    LET projectDisabledNames == DOMAIN projectConfig.disabled
        userEnabledNames     == DOMAIN userConfig.enabled
        projectEnabledNames  == DOMAIN projectConfig.enabled
        kept       == userEnabledNames \ projectDisabledNames
        overridden == kept \cap projectEnabledNames
        inherited  == kept \ projectEnabledNames
        additions  == projectEnabledNames
    IN  [enabled  |-> [n \in kept \cup additions |->
                          IF n \in inherited THEN userConfig.enabled[n]
                                             ELSE projectConfig.enabled[n]],
         disabled |-> [n \in (DOMAIN userConfig.disabled) \cup projectDisabledNames |->
                          IF n \in projectDisabledNames
                          THEN mergedDisabledRecord(userConfig, projectConfig, n)
                          ELSE userConfig.disabled[n]],
         inheritance |-> [inherited |-> inherited, overridden |-> overridden,
                          additions |-> additions],
         scope |-> "project",
         projectPath |-> normalizedPath]

mergeConfigs_IgnoresProjectDisabled(userConfig, projectConfig, normalizedPath) ==
    LET projectDisabledNames == DOMAIN projectConfig.disabled
        userEnabledNames     == DOMAIN userConfig.enabled
        projectEnabledNames  == DOMAIN projectConfig.enabled
        kept       == userEnabledNames
        overridden == kept \cap projectEnabledNames
        inherited  == kept \ projectEnabledNames
        additions  == projectEnabledNames \ userEnabledNames
    IN  [enabled  |-> [n \in kept \cup additions |->
                          IF n \in inherited THEN userConfig.enabled[n]
                                             ELSE projectConfig.enabled[n]],
         disabled |-> [n \in (DOMAIN userConfig.disabled) \cup projectDisabledNames |->
                          IF n \in projectDisabledNames
                          THEN mergedDisabledRecord(userConfig, projectConfig, n)
                          ELSE userConfig.disabled[n]],
         inheritance |-> [inherited |-> inherited, overridden |-> overridden,
                          additions |-> additions],
         scope |-> "project",
         projectPath |-> normalizedPath]

mergeConfigs_UserRecordWins(userConfig, projectConfig, normalizedPath) ==
    LET projectDisabledNames == DOMAIN projectConfig.disabled
        userEnabledNames     == DOMAIN userConfig.enabled
        projectEnabledNames  == DOMAIN projectConfig.enabled
        kept       == userEnabledNames \ projectDisabledNames
        overridden == kept \cap projectEnabledNames
        inherited  == kept \ projectEnabledNames
        additions  == projectEnabledNames \ userEnabledNames
    IN  [enabled  |-> [n \in kept \cup additions |->
                          IF n \in userEnabledNames THEN userConfig.enabled[n]
                                             ELSE projectConfig.enabled[n]],
         disabled |-> [n \in (DOMAIN userConfig.disabled) \cup projectDisabledNames |->
                          IF n \in projectDisabledNames
                          THEN mergedDisabledRecord(userConfig, projectConfig, n)
                          ELSE userConfig.disabled[n]],
         inheritance |-> [inherited |-> inherited, overridden |-> overridden,
                          additions |-> additions],
         scope |-> "project",
         projectPath |-> normalizedPath]

mergeConfigs(userConfig, projectConfig, normalizedPath) ==
    LET projectDisabledNames == DOMAIN projectConfig.disabled
        userEnabledNames     == DOMAIN userConfig.enabled
        projectEnabledNames  == DOMAIN projectConfig.enabled
        kept       == userEnabledNames \ projectDisabledNames
        overridden == kept \cap projectEnabledNames
        inherited  == kept \ projectEnabledNames
        additions  == projectEnabledNames \ userEnabledNames
    IN  [enabled  |-> [n \in kept \cup additions |->
                          IF n \in inherited THEN userConfig.enabled[n]
                                             ELSE projectConfig.enabled[n]],
         disabled |-> [n \in (DOMAIN userConfig.disabled) \cup projectDisabledNames |->
                          IF n \in projectDisabledNames
                          THEN mergedDisabledRecord(userConfig, projectConfig, n)
                          ELSE userConfig.disabled[n]],
         inheritance |-> [inherited |-> inherited, overridden |-> overridden,
                          additions |-> additions],
         scope |-> "project",
         projectPath |-> normalizedPath]

getMergedConfig(f, projectPath) ==
    LET u == loadConfig(f)
        p == loadProjectConfig(f, projectPath)
    IN  IF u.threw THEN u
        ELSE IF p.threw THEN p
        ELSE IF p.value = Null
        THEN Ok([enabled  |-> u.value.enabled,
                 disabled |-> u.value.disabled,
                 inheritance |-> [inherited |-> DOMAIN u.value.enabled,
                                  overridden |-> {}, additions |-> {}],
                 scope |-> "user",
                 projectPath |-> <<>>])
        ELSE Ok(mergeConfigs(u.value, p.value, normalizeProjectPath(projectPath)))

----------------------------------------------------------------------------
(* getMergedConfig on every user-level config and project entry *)

GetMergedConfig ==
    \E p \in QueryPaths :
        /\ merged' = [path |-> p, result |-> getMergedConfig(file, p)]
        /\ UNCHANGED <<file, baseVars, fsVars, extVars>>

InitMerge ==
    /\ file \in ClaudeFiles
    /\ merged = NoCall
    /\ config = [enabled |-> EmptyMap, disabled |-> EmptyMap]
    /\ hist = <<>>
    /\ InitFs
    /\ InitExt

NextMerge == GetMergedConfig

SpecMerge == InitMerge /\ [][NextMerge]_vars

----------------------------------------------------------------------------
(* ClaudeAdapter.createBackup and saveConfig                               *)
(* saveConfig runs to completion once started; its file-system steps are   *)
(* separate transitions so that their order is observable.  A backup file  *)
(* is named by the millisecond timestamp of its creation.                  *)

InvalidFile == [state |-> "invalid"]

backupName(t) == t

createBackup_SkipsCopy(f, b, t) == b

createBackup(f, b, t) ==
    [x \in (DOMAIN b) \cup {backupName(t)} |-> IF x = backupName(t) THEN f ELSE b[x]]

updateSections_FreshObject(json, new) ==
    IF DOMAIN new.disabled # {}
    THEN [k \in {"mcpServers", "_disabled_mcpServers"} |->
             IF k = "mcpServers" THEN new.enabled ELSE new.disabled]
    ELSE [k \in {"mcpServers"} |-> new.enabled]

updateSections(json, new) ==
    LET withEnabled == Set(json, "mcpServers", new.enabled)
    IN  IF DOMAIN new.disabled # {}
        THEN Set(withEnabled, "_disabled_mcpServers", new.disabled)
        ELSE Unset(withEnabled, "_disabled_mcpServers")

RecOf(n) == IF n = AllNames[1] THEN RecA ELSE RecB

NewConfigs == {c \in Snapshots :
                 /\ Disjoint(c)
                 /\ \A n \in DOMAIN c.enabled : c.enabled[n] = RecOf(n)
                 /\ \A n \in DOMAIN c.disabled : c.disabled[n] = RecOf(n)}

SampleProjects == [k \in {ProjectDir} |->
                     Set(Set(OtherProjectFields, "mcpServers", [k2 \in {AllNames[1]} |-> RecB]),
                         "disabledMcpServers", {AllNames[2]})]

SaveFiles ==
    {NoFile, InvalidFile}
    \cup {[state |-> "ok", json |-> j] :
            j \in {EmptyObj,
                   Set(OtherTopLevel, "mcpServers", [k \in {AllNames[1]} |-> RecB]),
                   Set(Set(Set(OtherTopLevel, "mcpServers", [k \in {AllNames[2]} |-> RecA]),
                           "_disabled_mcpServers", [k \in {AllNames[1]} |-> RecA]),
                       "projects", SampleProjects)}}

Log(entry) == Append(call.log, entry)

Tick ==
    /\ now < MaxClock
    /\ now' = now + 1
    /\ UNCHANGED <<file, merged, baseVars, extVars, backups, call, saves>>

SaveConfigBackup ==
    \E new \in NewConfigs :
        /\ adapter = "claude"
        /\ call.status \in {"none", "returned", "threw"}
        /\ saves < MaxSaves
        /\ saves' = saves + 1
        /\ IF file.state = "absent"
           THEN /\ call' = [status |-> "threw", new |-> new, before |-> file,
                            backupPath |-> backupName(now), log |-> <<>>]
                /\ UNCHANGED backups
           ELSE /\ backups' = createBackup(file, backups, now)
                /\ call' = [status |-> "backedUp", new |-> new, before |-> file,
                            backupPath |-> backupName(now),
                            log |-> <<[op |-> "copy", target |-> "backup"]>>]
        /\ UNCHANGED <<file, merged, baseVars, extVars, now>>

SaveConfigWrite ==
    /\ adapter = "claude"
    /\ call.status = "backedUp"
    /\ file.state = "ok"
    /\ file' = [file EXCEPT !.json = updateSections(file.json, call.new)]
    /\ call' = [call EXCEPT !.status = "returned",
                            !.log = Log([op |-> "write", target |-> "live"])]
    /\ UNCHANGED <<merged, baseVars, extVars, backups, now, saves>>

SaveConfigWriteFails ==
    /\ adapter = "claude"
    /\ call.status = "backedUp"
    /\ \/ /\ file.state = "invalid"
          /\ UNCHANGED file
          /\ call' = [call EXCEPT !.status = "catch"]
       \/ /\ file.state = "ok"
          /\ file' \in {file, InvalidFile}
          /\ call' = [call EXCEPT !.status = "catch",
                                  !.log = Log([op |-> "write", target |-> "live"])]
    /\ UNCHANGED <<merged, baseVars, extVars, backups, now, saves>>

SaveConfigRestore ==
    /\ adapter = "claude"
    /\ call.status = "catch"
    /\ file' = backups[call.backupPath]
    /\ call' = [call EXCEPT !.status = "threw",
                            !.log = Log([op |-> "copy", target |-> "live"])]
    /\ UNCHANGED <<merged, baseVars, extVars, backups, now, saves>>

InitSave ==
    /\ file \in SaveFiles
    /\ merged = NoCall
    /\ config = [enabled |-> EmptyMap, disabled |-> EmptyMap]
    /\ hist = <<>>
    /\ InitFs
    /\ InitExt

NextSave ==
    \/ Tick
    \/ SaveConfigBackup
    \/ SaveConfigWrite
    \/ SaveConfigWriteFails
    \/ SaveConfigRestore

SpecSave == InitSave /\ [][NextSave]_vars

----------------------------------------------------------------------------
(* CursorAdapter.createBackup and saveConfig                               *)
(* Enabled servers live in ~/.cursor/mcp.json (file), disabled servers in  *)
(* ~/.cursor/mcp-disabled.json (dfile).  A write that fails leaves the     *)
(* target as it was or, when the failure comes after the file was opened,  *)
(* existing with a truncated content.                                      *)

cursorBackupName(t) == <<"cursor", t>>

cursorDisabledBackupName(t) == <<"cursor-disabled", t>>

cursorCreateBackup_MainOnly(f, d, b, t) == Put(b, cursorBackupName(t), f)

cursorCreateBackup(f, d, b, t) ==
    LET withMain == Put(b, cursorBackupName(t), f)
    IN  IF d.state # "absent"
        THEN Put(withMain, cursorDisabledBackupName(t), d)
        ELSE withMain

DisabledFileOf(m) == [state |-> "ok", json |-> [k \in {"mcpServers"} |-> m]]

cursorWriteDisabled_KeepsEmpty(d, new) == DisabledFileOf(new.disabled)

cursorWriteDisabled(d, new) ==
    IF DOMAIN new.disabled # {}
    THEN DisabledFileOf(new.disabled)
    ELSE NoFile

CursorFiles ==
    {NoFile, InvalidFile}
    \cup {[state |-> "ok", json |-> j] :
            j \in {EmptyObj,
                   Set(OtherTopLevel, "mcpServers", [k \in {AllNames[1]} |-> RecB])}}

CursorDisabledFiles ==
    {NoFile, InvalidFile, DisabledFileOf([k \in {AllNames[2]} |-> RecA])}

CursorNewConfigs ==
    {c \in NewConfigs : (DOMAIN c.enabled) \cup (DOMAIN c.disabled) \subseteq
                            {AllNames[1], AllNames[2]}}

CursorSaveConfigBackup ==
    \E new \in CursorNewConfigs :
        /\ adapter = "cursor"
        /\ call.status \in {"none", "returned", "threw"}
        /\ saves < MaxSaves
        /\ saves' = saves + 1
        /\ IF file.state = "absent"
           THEN /\ call' = [status |-> "threw", new |-> new, before |-> file,
                            dbefore |-> dfile, stamp |-> now, failed |-> "backup"]
                /\ UNCHANGED backups
           ELSE /\ backups' = cursorCreateBackup(file, dfile, backups, now)
                /\ call' = [status |-> "backedUp", new |-> new, before |-> file,
                            dbefore |-> dfile, stamp |-> now, failed |-> "none"]
        /\ UNCHANGED <<file, dfile, merged, baseVars, profVars, probe, adapter, now>>

CursorWriteMain ==
    /\ adapter = "cursor"
    /\ call.status = "backedUp"
    /\ file.state = "ok"
    /\ file' = [file EXCEPT !.json = Set(file.json, "mcpServers", call.new.enabled)]
    /\ call' = [call EXCEPT !.status = "mainWritten"]
    /\ UNCHANGED <<dfile, merged, baseVars, profVars, probe, adapter, backups, now, saves>>

CursorWriteMainFails ==
    /\ adapter = "cursor"
    /\ call.status = "backedUp"
    /\ \/ /\ file.state = "invalid"
          /\ UNCHANGED file
       \/ /\ file.state = "ok"
          /\ file' \in {file, InvalidFile}
    /\ call' = [call EXCEPT !.status = "catch", !.failed = "main"]
    /\ UNCHANGED <<dfile, merged, baseVars, profVars, probe, adapter, backups, now, saves>>

CursorWriteDisabled ==
    /\ adapter = "cursor"
    /\ call.status = "mainWritten"
    /\ dfile' = cursorWriteDisabled(dfile, call.new)
    /\ call' = [call EXCEPT !.status = "returned"]
    /\ UNCHANGED <<file, merged, baseVars, profVars, probe, adapter, backups, now, saves>>

CursorWriteDisabledFails ==
    /\ adapter = "cursor"
    /\ call.status = "mainWritten"
    /\ IF DOMAIN call.new.disabled # {}
       THEN dfile' \in {dfile, InvalidFile}
       ELSE dfile.state # "absent" /\ UNCHANGED dfile
    /\ call' = [call EXCEPT !.status = "catch", !.failed = "disabled"]
    /\ UNCHANGED <<file, merged, baseVars, profVars, probe, adapter, backups, now, saves>>

CursorRestore ==
    /\ adapter = "cursor"
    /\ call.status = "catch"
    /\ file' = backups[cursorBackupName(call.stamp)]
    /\ dfile' = IF cursorDisabledBackupName(call.stamp) \in DOMAIN backups
                THEN backups[cursorDisabledBackupName(call.stamp)]
                ELSE dfile
    /\ call' = [call EXCEPT !.status = "threw"]
    /\ UNCHANGED <<merged, baseVars, profVars, probe, adapter, backups, now, saves>>

InitAdapterSave ==
    /\ adapter \in {"claude", "cursor"}
    /\ IF adapter = "claude"
       THEN file \in SaveFiles /\ dfile = NoFile
       ELSE file \in CursorFiles /\ dfile \in CursorDisabledFiles
    /\ merged = NoCall
    /\ config = [enabled |-> EmptyMap, disabled |-> EmptyMap]
    /\ hist = <<>>
    /\ profiles = NoProfiles
    /\ saved = NoSaved
    /\ probe = NoProbe
    /\ InitFs

NextAdapterSave ==
    \/ NextSave
    \/ CursorSaveConfigBackup
    \/ CursorWriteMain
    \/ CursorWriteMainFails
    \/ CursorWriteDisabled
    \/ CursorWriteDisabledFails
    \/ CursorRestore

SpecAdapterSave == InitAdapterSave /\ [][NextAdapterSave]_vars

----------------------------------------------------------------------------
(* detect and loadConfig of the three adapters                             *)
(* Besides "absent", "invalid" (not JSON) and "ok" (a JSON object), a file *)
(* can be "unreadable" (it exists, reading it throws), "null" (the JSON    *)
(* text null) or "array" (a JSON array, taken empty).                      *)

UnreadableFile == [state |-> "unreadable"]

NullFile == [state |-> "null"]

ArrayFile == [state |-> "array"]

Adapters == {"claude", "cline", "cursor"}

enabledKey(a) == IF a = "cline" THEN "cline.mcpServers" ELSE "mcpServers"

disabledKey(a) == IF a = "cline" THEN "cline._disabled_mcpServers" ELSE "_disabled_mcpServers"

NotAMapping == [k \in {AllNames[1]} |-> [bogus |-> "x"]]

claudeDetect(f) == f.state # "absent"

clineDetect(f) ==
    IF f.state = "absent" THEN FALSE
    ELSE IF f.state = "ok"
         THEN "cline.mcpServers" \in DOMAIN f.json
              \/ "cline._disabled_mcpServers" \in DOMAIN f.json
         ELSE FALSE

cursorDetect(f) ==
    IF f.state = "absent" THEN FALSE
    ELSE IF f.state = "ok" THEN "mcpServers" \in DOMAIN f.json
    ELSE FALSE

detect(a, f) ==
    IF a = "claude" THEN Ok(claudeDetect(f))
    ELSE IF a = "cline" THEN Ok(clineDetect(f))
    ELSE Ok(cursorDetect(f))

clineLoadConfig(f) ==
    IF f.state = "absent" THEN Failed("not found")
    ELSE IF f.state = "unreadable" THEN Failed("read")
    ELSE IF f.state \in {"invalid", "null"} THEN Failed("parse")
    ELSE IF f.state = "array" THEN Ok([enabled |-> EmptyMap, disabled |-> EmptyMap])
    ELSE Ok([enabled  |-> Get(f.json, "cline.mcpServers", EmptyMap),
             disabled |-> Get(f.json, "cline._disabled_mcpServers", EmptyMap)])

cursorLoadConfig(f, d) ==
    IF f.state = "absent" THEN Failed("not found")
    ELSE IF f.state \in {"unreadable", "invalid", "null"} THEN Failed("parse")
    ELSE IF d.state \in {"unreadable", "invalid", "null"} THEN Failed("parse")
    ELSE Ok([enabled  |-> IF f.state = "array" THEN EmptyMap
                          ELSE Get(f.json, "mcpServers", EmptyMap),
             disabled |-> IF d.state \in {"absent", "array"} THEN EmptyMap
                          ELSE Get(d.json, "mcpServers", EmptyMap)])

adapterLoadConfig(a, f, d) ==
    IF a = "claude" THEN loadConfig(f)
    ELSE IF a = "cline" THEN clineLoadConfig(f)
    ELSE cursorLoadConfig(f, d)

QueryObjects(a) ==
    {EmptyObj,
     OtherTopLevel,
     Set(OtherTopLevel, enabledKey(a), EmptyMap),
     Set(OtherTopLevel, enabledKey(a), [k \in {AllNames[1]} |-> RecA]),
     Set(EmptyObj, disabledKey(a), [k \in {AllNames[2]} |-> RecB]),
     Set(Set(EmptyObj, enabledKey(a), [k \in {AllNames[1]} |-> RecA]),
         disabledKey(a), [k \in {AllNames[2]} |-> RecB]),
     Set(OtherTopLevel, enabledKey(a), NotAMapping)}

QueryFiles(a) ==
    {NoFile, UnreadableFile, InvalidFile, NullFile, ArrayFile}
    \cup {[state |-> "ok", json |-> j] : j \in QueryObjects(a)}

QueryDisabledFiles ==
    {NoFile, InvalidFile, NullFile,
     [state |-> "ok", json |-> EmptyObj],
     DisabledFileOf([k \in {AllNames[2]} |-> RecB])}

Detect ==
    /\ probe' = [op |-> "detect", result |-> detect(adapter, file)]
    /\ UNCHANGED <<file, dfile, merged, baseVars, fsVars, profVars, adapter>>

LoadConfig ==
    /\ probe' = [op |-> "loadConfig", result |-> adapterLoadConfig(adapter, file, dfile)]
    /\ UNCHANGED <<file, dfile, merged, baseVars, fsVars, profVars, adapter>>

InitQuery ==
    /\ adapter \in Adapters
    /\ file \in QueryFiles(adapter)
    /\ dfile \in IF adapter = "cursor" THEN QueryDisabledFiles ELSE {NoFile}
    /\ merged = NoCall
    /\ config = [enabled |-> EmptyMap, disabled |-> EmptyMap]
    /\ hist = <<>>
    /\ profiles = NoProfiles
    /\ saved = NoSaved
    /\ probe = NoProbe
    /\ InitFs

NextQuery == Detect \/ LoadConfig

SpecQuery == InitQuery /\ [][NextQuery]_vars

----------------------------------------------------------------------------
(* Profile commands: saveProfile, loadProfile, deleteProfile               *)
(* A command ends the process with exit code 1 after printing an error, or *)
(* returns (exit code 0).  probe keeps the command, its outcome and the    *)
(* files as they were before it.                                           *)

ProfileNames == {"work", "minimal"}

LegacyProfile ==
    [name |-> "work", created |-> 0,
     mcpServers |-> [k \in {AllNames[1]} |-> RecA],
     _disabled_mcpServers |-> [k \in {AllNames[2]} |-> RecB]]

BothProfile ==
    [name |-> "work", tool |-> "claude", created |-> 0,
     enabled |-> [k \in {AllNames[2]} |-> RecB],
     disabled |-> EmptyMap,
     mcpServers |-> [k \in {AllNames[1]} |-> RecA],
     _disabled_mcpServers |-> [k \in {AllNames[1]} |-> RecA]]

ForeignProfile ==
    [name |-> "work", tool |-> "cline", created |-> 0,
     enabled |-> [k \in {AllNames[1]} |-> RecB],
     disabled |-> [k \in {AllNames[2]} |-> RecA]]

ProfileFileOf(json) == [state |-> "ok", json |-> json]

ProfileStores ==
    {NoProfiles}
    \cup {[p \in {"work"} |-> ProfileFileOf(j)] :
            j \in {LegacyProfile, BothProfile, ForeignProfile}}

EditConfigs ==
    {[enabled |-> EmptyMap, disabled |-> EmptyMap],
     [enabled |-> [k \in {AllNames[1]} |-> RecA],
      disabled |-> [k \in {AllNames[2]} |-> RecB]]}

newProfile_DropsDisabled(a, name, c, t) ==
    [name |-> name, tool |-> a, enabled |-> c.enabled, disabled |-> EmptyMap, created |-> t]

newProfile(a, name, c, t) ==
    [name |-> name, tool |-> a, enabled |-> c.enabled, disabled |-> c.disabled, created |-> t]

profileLists_LegacyFirst(P) ==
    [enabled  |-> IF "mcpServers" \in DOMAIN P THEN P.mcpServers
                  ELSE IF "enabled" \in DOMAIN P THEN P.enabled
                  ELSE EmptyMap,
     disabled |-> IF "_disabled_mcpServers" \in DOMAIN P THEN P._disabled_mcpServers
                  ELSE IF "disabled" \in DOMAIN P THEN P.disabled
                  ELSE EmptyMap]

profileLists(P) ==
    [enabled  |-> IF "enabled" \in DOMAIN P THEN P.enabled
                  ELSE IF "mcpServers" \in DOMAIN P THEN P.mcpServers
                  ELSE EmptyMap,
     disabled |-> IF "disabled" \in DOMAIN P THEN P.disabled
                  ELSE IF "_disabled_mcpServers" \in DOMAIN P THEN P._disabled_mcpServers
                  ELSE EmptyMap]

deleteProfile_TakesBackup(ps, name, f, b, t) ==
    [profiles |-> Del(ps, name), backups |-> createBackup(f, b, t)]

deleteProfile(ps, name, f, b, t) ==
    [profiles |-> Del(ps, name), backups |-> b]

Outcome(op, name, exit, error, warned) ==
    [op |-> op, name |-> name, exit |-> exit, error |-> error, warned |-> warned,
     fileBefore |-> file, backupsBefore |-> backups, profilesBefore |-> profiles]

SaveProfile ==
    \E name \in ProfileNames :
        LET r == loadConfig(file) IN
            /\ IF r.threw
               THEN /\ probe' = Outcome("save", name, 1, r.error, FALSE)
                    /\ UNCHANGED <<profiles, saved>>
               ELSE /\ profiles' = Put(profiles, name,
                                       ProfileFileOf(newProfile(adapter, name, r.value, now)))
                    /\ saved' = Put(saved, name,
                                    [enabled  |-> Get(file.json, "mcpServers", EmptyMap),
                                     disabled |-> Get(file.json, "_disabled_mcpServers", EmptyMap)])
                    /\ probe' = Outcome("save", name, 0, "none", FALSE)
            /\ UNCHANGED <<file, dfile, merged, baseVars, fsVars, adapter>>

LoadProfile ==
    \E name \in ProfileNames :
        IF name \notin DOMAIN profiles
        THEN /\ probe' = Outcome("load", name, 1, "profile not found", FALSE)
             /\ UNCHANGED <<file, dfile, merged, baseVars, fsVars, profVars, adapter>>
        ELSE LET P      == profiles[name].json
                 warned == "tool" \in DOMAIN P /\ P.tool # adapter
                 r      == loadConfig(file)
             IN  IF r.threw
                 THEN /\ probe' = Outcome("load", name, 1, r.error, warned)
                      /\ UNCHANGED <<file, dfile, merged, baseVars, fsVars, profVars, adapter>>
                 ELSE /\ saves < MaxSaves
                      /\ saves' = saves + 1
                      /\ backups' = createBackup(file, backups, now)
                      /\ \/ /\ file' = [file EXCEPT !.json = updateSections(file.json, profileLists(P))]
                            /\ probe' = Outcome("load", name, 0, "none", warned)
                         \/ /\ UNCHANGED file
                            /\ probe' = Outcome("load", name, 1, "save", warned)
                      /\ UNCHANGED <<dfile, merged, baseVars, profVars, adapter, now, call>>

DeleteProfile ==
    \E name \in ProfileNames :
        IF name \notin DOMAIN profiles
        THEN /\ probe' = Outcome("delete", name, 1, "profile not found", FALSE)
             /\ UNCHANGED <<file, dfile, merged, baseVars, fsVars, profVars, adapter>>
        ELSE LET d == deleteProfile(profiles, name, file, backups, now) IN
                 /\ profiles' = d.profiles
                 /\ backups' = d.backups
                 /\ probe' = Outcome("delete", name, 0, "none", FALSE)
                 /\ UNCHANGED <<file, dfile, merged, baseVars, saved, adapter, now, call, saves>>

EditLive ==
    \E new \in EditConfigs :
        /\ file.state = "ok"
        /\ saves < MaxSaves
        /\ saves' = saves + 1
        /\ backups' = createBackup(file, backups, now)
        /\ file' = [file EXCEPT !.json = updateSections(file.json, new)]
        /\ probe' = Outcome("edit", "", 0, "none", FALSE)
        /\ UNCHANGED <<dfile, merged, baseVars, profVars, adapter, now, call>>

InitProfile ==
    /\ adapter = "claude"
    /\ file \in SaveFiles
    /\ dfile = NoFile
    /\ profiles \in ProfileStores
    /\ saved = NoSaved
    /\ probe = NoProbe
    /\ merged = NoCall
    /\ config = [enabled |-> EmptyMap, disabled |-> EmptyMap]
    /\ hist = <<>>
    /\ InitFs

NextProfile ==
    \/ SaveProfile
    \/ LoadProfile
    \/ DeleteProfile
    \/ EditLive
    \/ Tick

SpecProfile == InitProfile /\ [][NextProfile]_vars

----------------------------------------------------------------------------
(* utils/scope: detectProjectRoot and resolveScopeInfo                     *)
(* The filesystem root is the empty path; dirname drops the last segment.  *)

Root == <<>>

dirname(p) == IF p = Root THEN Root ELSE SubSeq(p, 1, Len(p) - 1)

ScopeDirs == {Root, <<"home">>, ProjectDir, ProjectDir \o <<"src">>}

StartPaths == ScopeDirs \cup {<<"home", "other">>, <<"home", ".", "proj">>}

ExistingDirs == ScopeDirs

ScopeFlags == {"user", "project", "auto"}

ScopeFiles ==
    {NoFile, InvalidFile, [state |-> "ok", json |-> OtherTopLevel]}
    \cup {[state |-> "ok", json |-> Set(OtherTopLevel, "projects", [d \in ds |-> OtherProjectFields])] :
            ds \in SUBSET ScopeDirs}

RECURSIVE walk(_, _, _)
walk(projects, currentPath, steps) ==
    IF currentPath = Root THEN [found |-> FALSE, path |-> Root, steps |-> steps]
    ELSE IF normalizeProjectPath(currentPath) \in DOMAIN projects
         THEN [found |-> TRUE, path |-> currentPath, steps |-> steps + 1]
         ELSE walk(projects, dirname(currentPath), steps + 1)

detectProjectRoot(f, startPath) ==
    LET resolvedPath   == resolve(startPath)
        normalizedPath == normalizeProjectPath(resolvedPath)
    IN
    IF f.state # "ok" THEN [found |-> FALSE, path |-> Root, steps |-> 0]
    ELSE LET projects == Get(f.json, "projects", [k \in {} |-> EmptyObj])
         IN  IF normalizedPath \in DOMAIN projects
             THEN [found |-> TRUE, path |-> resolvedPath, steps |-> 0]
             ELSE walk(projects, resolvedPath, 0)

resolveScopeInfo(f, scopeFlag, projectPath) ==
    IF scopeFlag = "user" THEN Ok([scope |-> "user", isAutoDetected |-> FALSE])
    ELSE IF scopeFlag = "project"
    THEN IF resolve(projectPath) \notin ExistingDirs
         THEN Failed("path not found")
         ELSE Ok([scope |-> "project", projectPath |-> projectPath, isAutoDetected |-> FALSE])
    ELSE LET d == detectProjectRoot(f, projectPath)
         IN  IF d.found
             THEN Ok([scope |-> "project", projectPath |-> d.path, isAutoDetected |-> TRUE])
             ELSE Ok([scope |-> "user", isAutoDetected |-> TRUE])

ResolveScopeInfo ==
    \E scopeFlag \in ScopeFlags, start \in StartPaths :
        /\ probe' = [op |-> "resolveScopeInfo", flag |-> scopeFlag, start |-> start,
                     result |-> resolveScopeInfo(file, scopeFlag, start),
                     steps |-> detectProjectRoot(file, start).steps]
        /\ UNCHANGED <<file, dfile, merged, baseVars, fsVars, profVars, adapter>>

supportsProjectScope(a) == a = "claude"

Registered == {"claude", "cline"}

getAdapterAndScope(tool, f, scopeFlag, projectPath) ==
    IF tool \notin Registered THEN Failed("unknown tool")
    ELSE LET s == resolveScopeInfo(f, scopeFlag, projectPath)
         IN  IF s.threw THEN s
             ELSE IF s.value.scope = "project" /\ ~supportsProjectScope(tool)
             THEN Failed("unsupported scope")
             ELSE Ok([adapter |-> tool, scopeInfo |-> s.value])

GetAdapterAndScope ==
    \E tool \in Adapters, scopeFlag \in ScopeFlags, start \in StartPaths :
        /\ probe' = [op |-> "getAdapterAndScope", tool |-> tool, flag |-> scopeFlag,
                     start |-> start,
                     result |-> getAdapterAndScope(tool, file, scopeFlag, start)]
        /\ UNCHANGED <<file, dfile, merged, baseVars, fsVars, profVars, adapter>>

InitScope ==
    /\ adapter = "claude"
    /\ file \in ScopeFiles
    /\ dfile = NoFile
    /\ profiles = NoProfiles
    /\ saved = NoSaved
    /\ probe = NoProbe
    /\ merged = NoCall
    /\ config = [enabled |-> EmptyMap, disabled |-> EmptyMap]
    /\ hist = <<>>
    /\ InitFs

NextScope ==
    \/ ResolveScopeInfo
    \/ GetAdapterAndScope

SpecScope == InitScope /\ [][NextScope]_vars

----------------------------------------------------------------------------
(* The enable, disable and interactive commands of the Claude adapter, at  *)
(* user scope and at the scope of the project ProjectDir.  A command is    *)
(* one step: it loads, decides and, when it has something to save, takes   *)
(* the backup and rewrites ~/.claude.json.  The writes succeed here; the   *)
(* failing writes are the subject of the save steps above.  process.exit   *)
(* ends the command.  Each command that writes runs at a later millisecond *)
(* than the one before it; hist logs the commands that wrote.              *)

EmptyConfig == [enabled |-> EmptyMap, disabled |-> EmptyMap]

NoProjects == [k \in {} |-> EmptyObj]

projectEntry(P) ==
    IF DOMAIN P.disabled # {}
    THEN [mcpServers |-> P.enabled, disabledMcpServers |-> DOMAIN P.disabled]
    ELSE [mcpServers |-> P.enabled]

saveProjectConfig(json, projectPath, P) ==
    LET normalizedPath == normalizeProjectPath(projectPath)
        projects       == Get(json, "projects", NoProjects)
    IN  Set(json, "projects", Set(projects, normalizedPath, projectEntry(P)))

Exit(code) == [exit |-> code, save |-> "none", config |-> EmptyConfig]

SaveUser(c) == [exit |-> 0, save |-> "user", config |-> c]

SaveProject(c) == [exit |-> 0, save |-> "project", config |-> c]

enableCommandUser_AlreadyEnabledOk(f, serverName) ==
    LET r == loadConfig(f) IN
    IF r.threw THEN Exit(1)
    ELSE IF isServerEnabled(r.value, serverName) THEN Exit(0)
    ELSE IF ~Has(r.value.disabled, serverName) THEN Exit(1)
    ELSE SaveUser(enableServer(r.value, serverName).config)

enableCommandUser(f, serverName) ==
    LET r == loadConfig(f) IN
    IF r.threw THEN Exit(1)
    ELSE IF isServerEnabled(r.value, serverName) THEN Exit(1)
    ELSE IF ~Has(r.value.disabled, serverName) THEN Exit(1)
    ELSE SaveUser(enableServer(r.value, serverName).config)

disableCommandUser(f, serverName) ==
    LET r == loadConfig(f) IN
    IF r.threw THEN Exit(1)
    ELSE IF ~isServerEnabled(r.value, serverName) THEN Exit(1)
    ELSE SaveUser(disableServer(r.value, serverName).config)

enableCommandProject(f, projectPath, serverName) ==
    LET u == loadConfig(f)
        p == loadProjectConfig(f, projectPath)
    IN  IF u.threw \/ p.threw THEN Exit(1)
        ELSE
        LET userConfig           == u.value
            projectConfig        == p.value
            currentProjectConfig == IF projectConfig = Null THEN EmptyConfig ELSE projectConfig
        IN  IF /\ isServerEnabled(userConfig, serverName)
               /\ ~Has(currentProjectConfig.disabled, serverName)
            THEN Exit(0)
            ELSE IF ~Has(currentProjectConfig.disabled, serverName)
            THEN IF Has(userConfig.disabled, serverName)
                 THEN SaveProject([currentProjectConfig EXCEPT
                                      !.enabled = Put(@, serverName, userConfig.disabled[serverName])])
                 ELSE Exit(1)
            ELSE SaveProject(enableServer(currentProjectConfig, serverName).config)

disableCommandProject(f, projectPath, serverName) ==
    LET u == loadConfig(f)
        p == loadProjectConfig(f, projectPath)
        m == getMergedConfig(f, projectPath)
    IN  IF u.threw \/ p.threw \/ m.threw THEN Exit(1)
        ELSE IF ~isServerEnabled(m.value, serverName) THEN Exit(1)
        ELSE
        LET userConfig           == u.value
            currentProjectConfig == IF p.value = Null THEN EmptyConfig ELSE p.value
        IN  IF Has(currentProjectConfig.enabled, serverName)
            THEN SaveProject(disableServer(currentProjectConfig, serverName).config)
            ELSE IF Has(userConfig.enabled, serverName)
            THEN SaveProject([currentProjectConfig EXCEPT
                                 !.disabled = Put(@, serverName, userConfig.enabled[serverName])])
            ELSE IF Has(userConfig.disabled, serverName)
            THEN SaveProject([currentProjectConfig EXCEPT
                                 !.disabled = Put(@, serverName, userConfig.disabled[serverName])])
            ELSE SaveProject(currentProjectConfig)

loadScopedConfig(f, scope, projectPath) ==
    IF scope = "project" THEN getMergedConfig(f, projectPath) ELSE loadConfig(f)

toEnable(c, selectedServers) == (getAllServers(c) \cap selectedServers) \ DOMAIN c.enabled

toDisable(c, selectedServers) == (DOMAIN c.enabled) \ selectedServers

toggled(c, selectedServers) ==
    LET off   == toDisable(c, selectedServers)
        twice == off \cap DOMAIN c.disabled
        once  == off \ twice
        on    == toEnable(c, selectedServers)
        afterOff == [enabled  |-> [n \in (DOMAIN c.enabled) \ once |-> c.enabled[n]],
                     disabled |-> [n \in ((DOMAIN c.disabled) \ twice) \cup once |->
                                     IF n \in once THEN c.enabled[n] ELSE c.disabled[n]]]
    IN  [enabled  |-> [n \in (DOMAIN afterOff.enabled) \cup on |->
                         IF n \in on THEN afterOff.disabled[n] ELSE afterOff.enabled[n]],
         disabled |-> [n \in (DOMAIN afterOff.disabled) \ on |-> afterOff.disabled[n]]]

projectSelection(userConfig, scoped, allServers, selectedServers) ==
    LET added  == {n \in allServers \cap selectedServers : ~isServerEnabled(userConfig, n)}
        hidden == {n \in allServers \ selectedServers : isServerEnabled(userConfig, n)}
    IN  [enabled  |-> [n \in added |-> IF Has(scoped.enabled, n) THEN scoped.enabled[n]
                                                                 ELSE scoped.disabled[n]],
         disabled |-> [n \in hidden |-> userConfig.enabled[n]]]

interactiveCommand(f, scope, projectPath, selectedServers) ==
    LET r == loadScopedConfig(f, scope, projectPath) IN
    IF r.threw THEN Exit(1)
    ELSE
    LET scoped     == r.value
        allServers == getAllServers(scoped)
    IN  IF allServers = {} THEN Exit(0)
        ELSE IF toEnable(scoped, selectedServers) = {} /\ toDisable(scoped, selectedServers) = {}
        THEN Exit(0)
        ELSE
        LET newConfig == toggled(scoped, selectedServers) IN
        IF scope = "project" /\ scoped.scope = "project"
        THEN SaveProject(projectSelection(loadConfig(f).value, newConfig,
                                          allServers, selectedServers))
        ELSE SaveUser([enabled |-> newConfig.enabled, disabled |-> newConfig.disabled])

Scopes == {"user", "project"}

CommandRecord(op, scope, name, r) ==
    LET h == Append(hist, [op |-> op, scope |-> scope, name |-> name, exit |-> r.exit,
                           threw |-> FALSE, wrote |-> r.save, before |-> file])
    IN  IF Len(h) > HistLen THEN Tail(h) ELSE h

Run(op, scope, name, r) ==
    /\ r.save # "none" => saves < MaxSaves
    /\ IF r.save = "none"
       THEN UNCHANGED <<file, backups, saves, now, hist>>
       ELSE /\ backups' = createBackup(file, backups, now)
            /\ saves' = saves + 1
            /\ now' = now + 1
            /\ hist' = CommandRecord(op, scope, name, r)
            /\ file' = [file EXCEPT !.json =
                           IF r.save = "user" THEN updateSections(@, r.config)
                                              ELSE saveProjectConfig(@, ProjectDir, r.config)]
    /\ probe' = [op |-> op, scope |-> scope, name |-> name, exit |-> r.exit,
                 wrote |-> r.save, fileBefore |-> file, backupsBefore |-> backups]
    /\ UNCHANGED <<config, merged, call, dfile, profVars, adapter>>

EnableCommand ==
    \E n \in Names, scope \in Scopes :
        /\ scope = "project" => supportsProjectScope(adapter)
        /\ Run("enable", scope, n,
               IF scope = "project" THEN enableCommandProject(file, ProjectDir, n)
                                    ELSE enableCommandUser(file, n))

DisableCommand ==
    \E n \in Names, scope \in Scopes :
        /\ scope = "project" => supportsProjectScope(adapter)
        /\ Run("disable", scope, n,
               IF scope = "project" THEN disableCommandProject(file, ProjectDir, n)
                                    ELSE disableCommandUser(file, n))

InteractiveCommand ==
    \E S \in SUBSET Names, scope \in Scopes :
        /\ scope = "project" => supportsProjectScope(adapter)
        /\ LET r == loadScopedConfig(file, scope, ProjectDir)
           IN  IF r.threw THEN S = {} ELSE S \subseteq getAllServers(r.value)
        /\ Run("interactive", scope, S, interactiveCommand(file, scope, ProjectDir, S))

OtherDir == <<"home", "other">>

OtherEntry == Set(OtherProjectFields, "mcpServers", [k \in {AllNames[2]} |-> RecA])

CommandProjects ==
    {NoProjects} \cup
    {[d \in {ProjectDir, OtherDir} |-> IF d = ProjectDir THEN e ELSE OtherEntry] :
        e \in {OtherProjectFields,
               Set(OtherProjectFields, "mcpServers", [k \in {AllNames[1]} |-> RecB]),
               Set(Set(OtherProjectFields, "mcpServers", [k \in {AllNames[2]} |-> RecA]),
                   "disabledMcpServers", {AllNames[1]}),
               Set(Set(OtherProjectFields, "mcpServers", [k \in {AllNames[1]} |-> RecB]),
                   "disabledMcpServers", {AllNames[1]})}}

CommandConfigs ==
    {[enabled |-> [k \in {AllNames[1], AllNames[2]} |-> RecOf(k)], disabled |-> EmptyMap],
     [enabled |-> [k \in {AllNames[1]} |-> RecA], disabled |-> [k \in {AllNames[2]} |-> RecB]],
     [enabled |-> EmptyMap, disabled |-> [k \in {AllNames[1]} |-> RecA]],
     [enabled |-> [k \in {AllNames[1]} |-> RecA], disabled |-> [k \in {AllNames[1]} |-> RecB]]}

CommandFiles ==
    {NoFile}
    \cup {[state |-> "ok", json |-> Set(updateSections(OtherTopLevel, c), "projects", ps)] :
            c \in CommandConfigs, ps \in CommandProjects}

InitCommands ==
    /\ adapter = "claude"
    /\ file \in CommandFiles
    /\ dfile = NoFile
    /\ profiles = NoProfiles
    /\ saved = NoSaved
    /\ probe = NoProbe
    /\ merged = NoCall
    /\ config = [enabled |-> EmptyMap, disabled |-> EmptyMap]
    /\ hist = <<>>
    /\ InitFs

NextCommands ==
    \/ EnableCommand
    \/ DisableCommand
    \/ InteractiveCommand

SpecCommands == InitCommands /\ [][NextCommands]_vars

----------------------------------------------------------------------------
(* Properties of the BaseAdapter calls, checked under SpecBase *)

Last == hist[Len(hist)]

SameKeys(c, d) ==
    /\ DOMAIN c.enabled = DOMAIN d.enabled
    /\ DOMAIN c.disabled = DOMAIN d.disabled

\* C1: starting from a snapshot whose enabled and disabled key sets are
\* disjoint, after any sequence of enableServer, disableServer and
\* toggleServer calls (failing ones included) the two key sets are disjoint:
\* no call takes a disjoint snapshot to one that is not.
C1_KeySetsDisjoint == [][Disjoint(config) => Disjoint(config')]_vars

C1_Witness ==
    /\ Len(hist) = 2
    /\ Disjoint(hist[1].before)
    /\ Disjoint(config)
    /\ hist[1].threw
    /\ ~hist[2].threw
    /\ config # hist[2].before

\* C2 as stated: for every snapshot S and n in S.disabled,
\* disableServer(enableServer(S, n), n) has the key sets of S and maps n to
\* the record S had; for n in S.enabled, enableServer(disableServer(S, n), n)
\* restores S likewise.
C2_RoundTripAnySnapshot ==
    (Len(hist) = 2 /\ hist[1].name = hist[2].name) =>
        LET S == hist[1].before
            n == hist[1].name
        IN  /\ (hist[1].op = "enable" /\ hist[2].op = "disable" /\ Has(S.disabled, n)) =>
                /\ ~hist[1].threw /\ ~hist[2].threw
                /\ SameKeys(config, S)
                /\ config.disabled[n] = S.disabled[n]
            /\ (hist[1].op = "disable" /\ hist[2].op = "enable" /\ Has(S.enabled, n)) =>
                /\ ~hist[1].threw /\ ~hist[2].threw
                /\ SameKeys(config, S)
                /\ config.enabled[n] = S.enabled[n]

\* C2 amended: the round trip restores the key sets and the record of n for
\* every snapshot S and every n that is a key of S.disabled and not of
\* S.enabled (enable then disable), or a key of S.enabled and not of
\* S.disabled (disable then enable).
C2_EnableDisableRoundTrip ==
    (Len(hist) = 2 /\ hist[1].name = hist[2].name) =>
        LET S == hist[1].before
            n == hist[1].name
        IN  /\ (/\ hist[1].op = "enable" /\ hist[2].op = "disable"
                /\ Has(S.disabled, n) /\ ~Has(S.enabled, n)) =>
                /\ ~hist[1].threw /\ ~hist[2].threw
                /\ SameKeys(config, S)
                /\ config.disabled[n] = S.disabled[n]
            /\ (/\ hist[1].op = "disable" /\ hist[2].op = "enable"
                /\ Has(S.enabled, n) /\ ~Has(S.disabled, n)) =>
                /\ ~hist[1].threw /\ ~hist[2].threw
                /\ SameKeys(config, S)
                /\ config.enabled[n] = S.enabled[n]

C2_Witness ==
    /\ Len(hist) = 2
    /\ hist[1].op = "enable" /\ hist[2].op = "disable"
    /\ hist[1].name = hist[2].name
    /\ ~hist[1].threw /\ ~hist[2].threw
    /\ hist[1].before.disabled[hist[1].name] = RecA
    /\ ~Has(hist[1].before.enabled, hist[1].name)
    /\ DOMAIN hist[1].before.enabled # {}

\* C3: for n present in a disjoint snapshot S, toggleServer(toggleServer(S, n), n)
\* leaves n in the section it was in, with the same record, and leaves every
\* other name untouched.
C3_ToggleTwice ==
    (/\ Len(hist) = 2
     /\ hist[1].op = "toggle" /\ hist[2].op = "toggle"
     /\ hist[1].name = hist[2].name
     /\ Disjoint(hist[1].before)
     /\ serverExists(hist[1].before, hist[1].name)) =>
        /\ ~hist[1].threw /\ ~hist[2].threw
        /\ config.enabled = hist[1].before.enabled
        /\ config.disabled = hist[1].before.disabled

C3_Witness ==
    /\ Len(hist) = 2
    /\ hist[1].op = "toggle" /\ hist[2].op = "toggle"
    /\ hist[1].name = hist[2].name
    /\ ~hist[1].threw /\ ~hist[2].threw
    /\ Disjoint(hist[1].before)
    /\ isServerEnabled(hist[1].before, hist[1].name)
    /\ getAllServers(config) = Names

----------------------------------------------------------------------------
(* Properties of getMergedConfig, checked under SpecMerge *)

MergeReturned == ~merged.result.threw

M == merged.result.value

UserEnabled == Get(file.json, "mcpServers", EmptyMap)

UserDisabled == Get(file.json, "_disabled_mcpServers", EmptyMap)

Projects == Get(file.json, "projects", [k \in {} |-> EmptyObj])

HasEntry == normalizeProjectPath(merged.path) \in DOMAIN Projects

Entry == Projects[normalizeProjectPath(merged.path)]

EntryServers == IF HasEntry THEN Get(Entry, "mcpServers", EmptyMap) ELSE EmptyMap

EntryDisabledNames == IF HasEntry THEN Get(Entry, "disabledMcpServers", {}) ELSE {}

\* C5: inherited, overridden and additions are pairwise disjoint and their
\* union is exactly the key set of the merged enabled map.
C5_ProvenancePartition ==
    MergeReturned =>
        LET i == M.inheritance IN
            /\ i.inherited \cap i.overridden = {}
            /\ i.inherited \cap i.additions = {}
            /\ i.overridden \cap i.additions = {}
            /\ i.inherited \cup i.overridden \cup i.additions = DOMAIN M.enabled

C5_Witness ==
    /\ MergeReturned
    /\ HasEntry
    /\ M.inheritance.overridden # {}
    /\ M.inheritance.additions # {}

\* C6: a name enabled at user level and listed as disabled in the project
\* entry is not a key of the merged enabled map and is a key of the merged
\* disabled map.
C6_ProjectDisableWins ==
    MergeReturned =>
        \A n \in (DOMAIN UserEnabled) \cap EntryDisabledNames :
            /\ n \notin DOMAIN M.enabled
            /\ n \in DOMAIN M.disabled

C6_Witness ==
    /\ MergeReturned
    /\ (DOMAIN UserEnabled) \cap EntryDisabledNames # {}
    /\ DOMAIN M.enabled # {}

\* C7: for a name not disabled by the project: enabled at both levels gives
\* the project's record, classified overridden; enabled only at user level
\* gives the user's record, classified inherited; enabled only at project
\* level gives the project's record, classified additions.
C7_RecordAndClass ==
    MergeReturned =>
        \A n \in Names \ EntryDisabledNames :
            LET atUser    == n \in DOMAIN UserEnabled
                atProject == n \in DOMAIN EntryServers
            IN  /\ (atUser /\ atProject) =>
                      /\ n \in DOMAIN M.enabled
                      /\ M.enabled[n] = EntryServers[n]
                      /\ n \in M.inheritance.overridden
                /\ (atUser /\ ~atProject) =>
                      /\ n \in DOMAIN M.enabled
                      /\ M.enabled[n] = UserEnabled[n]
                      /\ n \in M.inheritance.inherited
                /\ (~atUser /\ atProject) =>
                      /\ n \in DOMAIN M.enabled
                      /\ M.enabled[n] = EntryServers[n]
                      /\ n \in M.inheritance.additions

C7_Witness ==
    /\ MergeReturned
    /\ \E n \in Names \ EntryDisabledNames :
          /\ n \in DOMAIN UserEnabled
          /\ n \in DOMAIN EntryServers
          /\ UserEnabled[n] # EntryServers[n]
    /\ M.inheritance.inherited # {}

\* C8: when the user-level config and the project entry are each disjoint,
\* no name is a key of both the merged enabled map and the merged disabled
\* map.
C8_MergedDisjoint ==
    (/\ MergeReturned
     /\ (DOMAIN UserEnabled) \cap (DOMAIN UserDisabled) = {}
     /\ (DOMAIN EntryServers) \cap EntryDisabledNames = {}) =>
        (DOMAIN M.enabled) \cap (DOMAIN M.disabled) = {}

\* C9: the merged disabled map is the user-level disabled map plus, for each
\* name the project entry disables, the project's own record if the entry
\* defines one, else the user's enabled record, else a placeholder; a real
\* record is never replaced by the placeholder.
C9_MergedDisabledRecords ==
    MergeReturned =>
        /\ DOMAIN M.disabled = (DOMAIN UserDisabled) \cup EntryDisabledNames
        /\ \A n \in (DOMAIN UserDisabled) \ EntryDisabledNames :
              M.disabled[n] = UserDisabled[n]
        /\ \A n \in EntryDisabledNames :
              IF n \in DOMAIN EntryServers THEN M.disabled[n] = EntryServers[n]
              ELSE IF n \in DOMAIN UserEnabled THEN M.disabled[n] = UserEnabled[n]
              ELSE IF n \in DOMAIN UserDisabled THEN M.disabled[n] = UserDisabled[n]
              ELSE M.disabled[n] = Placeholder

----------------------------------------------------------------------------
(* Properties of saveConfig, checked under SpecSave *)

FirstIndex(log, target) ==
    IF \E i \in 1..Len(log) : log[i].target = target
    THEN CHOOSE i \in 1..Len(log) :
            /\ log[i].target = target
            /\ \A j \in 1..(i - 1) : log[j].target # target
    ELSE 0

----------------------------------------------------------------------------
(* Properties of saveConfig of the Claude and Cursor adapters, checked     *)
(* under SpecAdapterSave                                                   *)

\* C11: when a write fails during saveConfig the call raises and the live
\* configuration is what it was before the call; for the Cursor adapter both
\* mcp.json and mcp-disabled.json are back to their pre-save state (content,
\* or absence), whichever of the two writes failed.
C11_SaveFailureRestores ==
    (call.status = "threw" /\ adapter = "cursor" /\ call.failed \in {"main", "disabled"}) =>
        /\ file = call.before
        /\ dfile = call.dbefore

\* The Claude adapter's part of C11: the single live file is restored.
ClaudeSaveFailureRestores ==
    (call.status = "threw" /\ adapter = "claude") => file = call.before

SectionKeys ==
    IF adapter = "cursor" THEN {"mcpServers"}
    ELSE {"mcpServers", "_disabled_mcpServers"}

\* C12: a successful saveConfig changes only the adapter's server sections
\* of the live file: every other top-level field (for Claude the projects
\* section included) is there afterwards with the value it had, and no
\* other field appears.
C12_OtherFieldsPreserved ==
    call.status = "returned" =>
        /\ file.state = "ok"
        /\ (DOMAIN file.json) \ SectionKeys = (DOMAIN call.before.json) \ SectionKeys
        /\ \A k \in (DOMAIN call.before.json) \ SectionKeys :
              file.json[k] = call.before.json[k]

C12_Witness ==
    /\ call.status = "returned"
    /\ adapter = "claude"
    /\ "projects" \in DOMAIN call.before.json
    /\ "numStartups" \in DOMAIN file.json
    /\ file.json["mcpServers"] # call.before.json["mcpServers"]
    /\ "_disabled_mcpServers" \notin DOMAIN file.json

\* C13: for the Cursor adapter, after a successful saveConfig(S) the
\* disabled-file exists exactly when S.disabled is non-empty and then holds
\* S.disabled as its server map; when S.disabled is empty a disabled-file
\* that existed before the save is gone.
C13_DisabledFileIffNonEmpty ==
    (call.status = "returned" /\ adapter = "cursor") =>
        /\ (dfile.state # "absent") <=> (DOMAIN call.new.disabled # {})
        /\ (DOMAIN call.new.disabled # {}) =>
              /\ dfile.state = "ok"
              /\ dfile.json["mcpServers"] = call.new.disabled

C13_Witness ==
    /\ call.status = "returned"
    /\ adapter = "cursor"
    /\ DOMAIN call.new.disabled = {}
    /\ call.dbefore.state = "ok"
    /\ dfile.state = "absent"
    /\ saves = 2

----------------------------------------------------------------------------
(* Properties of createBackup, checked under SpecSave *)

\* C14: backups do not overwrite each other: every createBackup call that
\* succeeds (two consecutive saves included, however close in time) adds
\* exactly one file to the backup directory under a name no earlier backup
\* has, and leaves the content of every earlier backup unchanged.
C14_BackupsDistinct ==
    [][(call'.status = "backedUp" /\ call.status # "backedUp") =>
          /\ call'.backupPath \notin DOMAIN backups
          /\ Cardinality(DOMAIN backups') = Cardinality(DOMAIN backups) + 1
          /\ \A b \in DOMAIN backups : backups'[b] = backups[b]]_vars

----------------------------------------------------------------------------
(* Properties of detect and loadConfig, checked under SpecQuery *)

HasServerKey ==
    /\ file.state = "ok"
    /\ \/ enabledKey(adapter) \in DOMAIN file.json
       \/ disabledKey(adapter) \in DOMAIN file.json

\* C15: for every adapter and every state of its file (absent, unreadable,
\* not JSON, JSON without the server-list key, JSON with it) detect() does
\* not raise, and it returns true only when the file exists and contains
\* the adapter's server-list key.
C15_DetectOnlyWithKey ==
    probe.op = "detect" =>
        /\ ~probe.result.threw
        /\ probe.result.value => HasServerKey

IsServerMap(m) == \A n \in DOMAIN m : "command" \in DOMAIN m[n]

ExpectedShape(a, f) ==
    /\ f.state = "ok"
    /\ \A k \in {enabledKey(a), disabledKey(a)} \cap DOMAIN f.json : IsServerMap(f.json[k])

Readable == file.state # "unreadable" /\ dfile.state # "unreadable"

\* C16: loadConfig fails with a not-found error when the file is absent and
\* with a parse error when the file is not valid JSON or is valid JSON that
\* is not an object of the expected shape; otherwise it succeeds and returns
\* the enabled and disabled mappings, each empty when its key is missing.
C16_LoadConfigOutcome ==
    (probe.op = "loadConfig" /\ Readable) =>
        IF file.state = "absent"
        THEN probe.result.threw /\ probe.result.error = "not found"
        ELSE IF ~ExpectedShape(adapter, file)
                \/ (adapter = "cursor" /\ dfile.state # "absent"
                                       /\ ~ExpectedShape("cursor", dfile))
        THEN probe.result.threw /\ probe.result.error = "parse"
        ELSE /\ ~probe.result.threw
             /\ probe.result.value.enabled = Get(file.json, enabledKey(adapter), EmptyMap)
             /\ probe.result.value.disabled =
                   IF adapter = "cursor"
                   THEN IF dfile.state = "absent" THEN EmptyMap
                        ELSE Get(dfile.json, "mcpServers", EmptyMap)
                   ELSE Get(file.json, disabledKey(adapter), EmptyMap)

----------------------------------------------------------------------------
(* Properties of the profile commands, checked under SpecProfile *)

Live == loadConfig(file).value

\* C17: profile round trip: when profile p was saved while the live
\* configuration had enabled = E and disabled = D, a later successful load
\* of p leaves the live configuration with enabled = E and disabled = D,
\* every record as it was.
C17_ProfileRoundTrip ==
    (probe.op = "load" /\ probe.exit = 0 /\ probe.name \in DOMAIN saved) =>
        /\ ~loadConfig(file).threw
        /\ Live.enabled = saved[probe.name].enabled
        /\ Live.disabled = saved[probe.name].disabled

C17_Witness ==
    /\ probe.op = "load" /\ probe.exit = 0
    /\ probe.name \in DOMAIN saved
    /\ file # probe.fileBefore
    /\ saved[probe.name].enabled = [k \in {AllNames[2]} |-> RecA]
    /\ saved[probe.name].disabled = [k \in {AllNames[1]} |-> RecA]

ProfileBefore == probe.profilesBefore[probe.name].json

\* C18: a profile in the legacy shape (mcpServers, _disabled_mcpServers)
\* loads as the same profile in the current shape (enabled, disabled) would;
\* when a profile has both pairs of names, the current names are the ones
\* applied.
C18_LegacyProfileShape ==
    (probe.op = "load" /\ probe.exit = 0) =>
        /\ Live.enabled =
              IF "enabled" \in DOMAIN ProfileBefore THEN ProfileBefore.enabled
              ELSE IF "mcpServers" \in DOMAIN ProfileBefore THEN ProfileBefore.mcpServers
              ELSE EmptyMap
        /\ Live.disabled =
              IF "disabled" \in DOMAIN ProfileBefore THEN ProfileBefore.disabled
              ELSE IF "_disabled_mcpServers" \in DOMAIN ProfileBefore
                   THEN ProfileBefore._disabled_mcpServers
              ELSE EmptyMap

C18_Witness ==
    /\ probe.op = "load" /\ probe.exit = 0
    /\ ProfileBefore = LegacyProfile
    /\ Live.enabled = LegacyProfile.mcpServers
    /\ Live.disabled = LegacyProfile._disabled_mcpServers
    /\ file # probe.fileBefore

C18_WitnessBoth ==
    /\ probe.op = "load" /\ probe.exit = 0
    /\ ProfileBefore = BothProfile
    /\ Live.enabled = BothProfile.enabled

\* C19: loading or deleting a profile that does not exist fails with
\* profile-not-found and leaves the live configuration, the backup
\* directory and the profile store unchanged; deleting an existing profile
\* removes it, takes no backup and does not touch the live configuration,
\* so that loading it fails until it is saved again; a profile recorded for
\* another tool id still loads, with a warning only.
C19_ProfileNotFoundAndDelete ==
    /\ (probe.op \in {"load", "delete"} /\ probe.name \notin DOMAIN probe.profilesBefore) =>
          /\ probe.exit = 1
          /\ probe.error = "profile not found"
          /\ file = probe.fileBefore
          /\ backups = probe.backupsBefore
          /\ profiles = probe.profilesBefore
    /\ (probe.op = "delete" /\ probe.name \in DOMAIN probe.profilesBefore) =>
          /\ probe.exit = 0
          /\ DOMAIN profiles = (DOMAIN probe.profilesBefore) \ {probe.name}
          /\ \A p \in DOMAIN profiles : profiles[p] = probe.profilesBefore[p]
          /\ backups = probe.backupsBefore
          /\ file = probe.fileBefore
    /\ (probe.op = "load" /\ probe.name \in DOMAIN probe.profilesBefore
          /\ probe.warned /\ probe.exit = 1) =>
          probe.error # "profile not found"
    /\ (probe.op = "load" /\ probe.name \in DOMAIN probe.profilesBefore
          /\ probe.warned /\ ~loadConfig(probe.fileBefore).threw /\ probe.error # "save") =>
          /\ probe.exit = 0
          /\ Live.enabled = ProfileBefore.enabled
          /\ Live.disabled = ProfileBefore.disabled

C19_Witness ==
    /\ probe.op = "load" /\ probe.exit = 1
    /\ probe.error = "profile not found"
    /\ probe.name \in DOMAIN saved
    /\ probe.backupsBefore # NoBackups
    /\ probe.fileBefore.state = "ok"

C19_WitnessForeign ==
    /\ probe.op = "load" /\ probe.exit = 0 /\ probe.warned
    /\ ProfileBefore = ForeignProfile

----------------------------------------------------------------------------
(* Properties of resolveScopeInfo, checked under SpecScope *)

LiveBefore == loadConfig(probe.fileBefore).value

OriginalRecord(n) ==
    IF n \in DOMAIN LiveBefore.enabled THEN LiveBefore.enabled[n] ELSE LiveBefore.disabled[n]

\* C21: after a successful profile save, load or delete, every server name
\* that was in the live configuration (enabled or disabled) before the
\* command is still in exactly one of the two sections, with its original
\* record: servers are only moved between the sections, never deleted.
C21_NoDataLoss ==
    (/\ probe.op \in {"save", "load", "delete"}
     /\ probe.exit = 0
     /\ ~loadConfig(probe.fileBefore).threw) =>
        \A n \in (DOMAIN LiveBefore.enabled) \cup (DOMAIN LiveBefore.disabled) :
            /\ (n \in DOMAIN Live.enabled) # (n \in DOMAIN Live.disabled)
            /\ n \in DOMAIN Live.enabled => Live.enabled[n] = OriginalRecord(n)
            /\ n \in DOMAIN Live.disabled => Live.disabled[n] = OriginalRecord(n)

Ancestors(p) == {SubSeq(p, 1, k) : k \in 0..Len(p)}

EntryDirs == IF file.state = "ok"
             THEN DOMAIN Get(file.json, "projects", [k \in {} |-> EmptyObj])
             ELSE {}

Candidates == Ancestors(resolve(probe.start)) \cap EntryDirs

Nearest == CHOOSE d \in Candidates : \A e \in Candidates : Len(e) <= Len(d)

\* C20: in auto mode resolveScopeInfo returns project scope with
\* projectPath the nearest directory, among the start directory and all its
\* ancestors up to and including the filesystem root, that has a project
\* entry in the user-level config; it returns user scope exactly when none
\* of them has one; the walk takes at most depth-of-the-start-path steps.
C20_AutoScopeNearestEntry ==
    (probe.op = "resolveScopeInfo" /\ probe.flag = "auto") =>
        /\ ~probe.result.threw
        /\ probe.steps <= Len(resolve(probe.start))
        /\ IF Candidates = {}
           THEN probe.result.value.scope = "user"
           ELSE /\ probe.result.value.scope = "project"
                /\ probe.result.value.projectPath = Nearest


ServerRecords(f) ==
    IF f.state = "ok"
    THEN LET s == Get(f.json, "mcpServers", EmptyMap) IN {<<n, s[n]>> : n \in DOMAIN s}
    ELSE {}

BackupRecords(name) ==
    IF name \in DOMAIN backups THEN ServerRecords(backups[name]) ELSE {}

OwnBackupRecords ==
    BackupRecords(cursorBackupName(call.stamp))
    \cup (IF call.dbefore.state # "absent"
          THEN BackupRecords(cursorDisabledBackupName(call.stamp))
          ELSE {})

\* C30: at every point of the Cursor saveConfig after its backup (before the
\* main write, between the main write and the write or delete of the
\* disabled-file, after both, and in the catch block), every server record
\* that was in the main file or in the disabled-file before the save is in
\* the live main file, in the live disabled-file or in the backup files this
\* save created.
C30_CursorSaveKeepsRecords ==
    (adapter = "cursor" /\ call.status # "none" /\ call.failed # "backup") =>
        ServerRecords(call.before) \cup ServerRecords(call.dbefore)
            \subseteq ServerRecords(file) \cup ServerRecords(dfile) \cup OwnBackupRecords

C30_Witness ==
    /\ adapter = "cursor" /\ call.status = "returned"
    /\ ServerRecords(call.before) \ (ServerRecords(file) \cup ServerRecords(dfile)) # {}
    /\ ServerRecords(call.dbefore) \ (ServerRecords(file) \cup ServerRecords(dfile)) # {}

C30_WitnessBetween ==
    /\ adapter = "cursor" /\ call.status = "mainWritten"
    /\ ServerRecords(call.before) \ ServerRecords(file) # {}
    /\ ServerRecords(call.dbefore) # {}

\* C27: with the default scope auto, a command for an adapter that does not
\* support project scope (Cline, Cursor) runs at user scope and never fails
\* with the unsupported-scope error, whatever project entries the Claude
\* config records; that error arises only when project scope is requested
\* explicitly.
C27_AutoNeverUnsupported ==
    (/\ probe.op = "getAdapterAndScope"
     /\ probe.tool \in Registered
     /\ ~supportsProjectScope(probe.tool)) =>
        /\ probe.flag = "auto" =>
               /\ ~probe.result.threw
               /\ probe.result.value.scopeInfo.scope = "user"
        /\ (probe.result.threw /\ probe.result.error = "unsupported scope") =>
               probe.flag = "project"

----------------------------------------------------------------------------
(* Properties of the commands, checked under SpecCommands *)

UserBefore == loadConfig(probe.fileBefore)

Untouched == file = probe.fileBefore /\ backups = probe.backupsBefore

C22_WitnessAbsent ==
    /\ probe.op = "disable" /\ probe.scope = "user" /\ probe.exit = 1
    /\ probe.fileBefore.state = "absent"

ProjectServers(f) ==
    LET projects == Get(f.json, "projects", NoProjects)
    IN  IF ProjectDir \in DOMAIN projects
        THEN Get(projects[ProjectDir], "mcpServers", EmptyMap)
        ELSE EmptyMap

MergedNow == getMergedConfig(file, ProjectDir).value

(* C23: starting from configurations in which every record has a non-empty *)
(* command, after any sequence of enable and disable commands at user and  *)
(* project scope and confirmed interactive applies, no server of the       *)
(* project entry's mcpServers and no server of the merged enabled map has  *)
(* an empty command.                                                       *)
C23_NoPlaceholderLive ==
    file.state = "ok" =>
        /\ \A n \in DOMAIN ProjectServers(file) : ProjectServers(file)[n].command # ""
        /\ \A n \in DOMAIN MergedNow.enabled : MergedNow.enabled[n].command # ""

MergedOf(f) == getMergedConfig(f, ProjectDir).value

(* C24: for every server n enabled in the merged configuration of the      *)
(* project (inherited, overridden or a project addition), a project-scope  *)
(* disable of n followed by a project-scope enable of n leaves n enabled   *)
(* in the merged configuration with the record it had before.              *)
C24_ProjectRoundTrip ==
    Len(hist) >= 2 =>
        LET d == hist[Len(hist) - 1]
            e == hist[Len(hist)]
        IN  (/\ d.op = "disable" /\ d.scope = "project"
             /\ e.op = "enable" /\ e.scope = "project"
             /\ e.name = d.name
             /\ d.name \in DOMAIN MergedOf(d.before).enabled) =>
                /\ d.name \in DOMAIN MergedNow.enabled
                /\ MergedNow.enabled[d.name] = MergedOf(d.before).enabled[d.name]

LastWrite == hist[Len(hist)]

ProjectsOf(f) == Get(f.json, "projects", NoProjects)

ServerListKeys == {"mcpServers", "disabledMcpServers"}

(* C25: saveProjectConfig(path, P) changes only the server lists of the    *)
(* entry of that project: every other field already stored in              *)
(* projects[path], the entry of every other project and every top-level    *)
(* field outside projects are the same after the call as before.           *)
C25_SaveProjectTouchesOnlyLists ==
    (Len(hist) > 0 /\ LastWrite.wrote = "project") =>
        LET before == LastWrite.before
            path   == normalizeProjectPath(ProjectDir)
        IN  /\ \A k \in (DOMAIN before.json) \ {"projects"} :
                   k \in DOMAIN file.json /\ file.json[k] = before.json[k]
            /\ \A d \in (DOMAIN ProjectsOf(before)) \ {path} :
                   d \in DOMAIN ProjectsOf(file) /\ ProjectsOf(file)[d] = ProjectsOf(before)[d]
            /\ path \in DOMAIN ProjectsOf(before) =>
                   \A k \in (DOMAIN ProjectsOf(before)[path]) \ ServerListKeys :
                       /\ k \in DOMAIN ProjectsOf(file)[path]
                       /\ ProjectsOf(file)[path][k] = ProjectsOf(before)[path][k]

UserLists(f) == loadConfig(f).value

(* C26: the project-scope enable, disable and interactive apply never      *)
(* change the user-level mcpServers and _disabled_mcpServers, and the      *)
(* user-scope commands never change an entry under projects, in any        *)
(* interleaving of the commands.                                           *)
C26_ScopeIsolation ==
    Len(hist) > 0 =>
        /\ LastWrite.scope = "project" => UserLists(file) = UserLists(LastWrite.before)
        /\ LastWrite.scope = "user" => ProjectsOf(file) = ProjectsOf(LastWrite.before)

Applied == probe.op = "interactive" /\ probe.wrote # "none"

ReloadedEnabled ==
    IF probe.scope = "project" THEN DOMAIN MergedNow.enabled
                               ELSE DOMAIN loadConfig(file).value.enabled

(* C28: after a confirmed interactive apply with the selected set S, a     *)
(* subset of the listed servers that changes at least one server,          *)
(* reloading at the same scope (loadConfig at user scope, getMergedConfig  *)
(* at project scope) yields an enabled key set equal to S.                 *)
C28_ApplyYieldsSelection == Applied => ReloadedEnabled = probe.name

C28_Witness ==
    /\ Applied /\ probe.scope = "project" /\ probe.wrote = "project"
    /\ probe.name # {}
    /\ probe.name # DOMAIN MergedOf(probe.fileBefore).enabled
    /\ \E n \in probe.name : n \notin DOMAIN loadConfig(file).value.enabled

C28_WitnessUser ==
    /\ Applied /\ probe.scope = "user"
    /\ probe.name # {}
    /\ probe.name # DOMAIN loadConfig(probe.fileBefore).value.enabled

MergedBefore == MergedOf(probe.fileBefore)

(* C29: a confirmed project-scope interactive apply affects only the       *)
(* servers whose checkbox changed: every listed server left as it was is   *)
(* still listed in the merged configuration, in the same section and with  *)
(* the same record; an overridden server keeps the project's record and a  *)
(* project-only server that stays unchecked is still listed as disabled.   *)
C29_ApplyKeepsUnchangedServers ==
    (Applied /\ probe.wrote = "project") =>
        /\ \A n \in (DOMAIN MergedBefore.enabled) \cap probe.name :
               /\ n \in DOMAIN MergedNow.enabled
               /\ MergedNow.enabled[n] = MergedBefore.enabled[n]
        /\ \A n \in ((DOMAIN MergedBefore.disabled) \ DOMAIN MergedBefore.enabled) \ probe.name :
               /\ n \in DOMAIN MergedNow.disabled
               /\ n \notin DOMAIN MergedNow.enabled
               /\ MergedNow.disabled[n] = MergedBefore.disabled[n]

====
